---- MODULE Spec2Model ----
(***************************************************************************)
(* A model of the GitLab SCM adapter of src/index.js (class GitlabScm).    *)
(*                                                                         *)
(* Two groups of state:                                                    *)
(*   - the webhook path (_parseHook, _canHandleWebhook): an inbound        *)
(*     delivery (headers, payload) and the completions of the two calls;   *)
(*   - the network-backed operations: one operation in flight, the request *)
(*     handed to breaker.runCommand, the way runCommand settles and the    *)
(*     completion of the operation's promise.                              *)
(*                                                                         *)
(* JavaScript values are modelled as follows.  A string the code only      *)
(* copies is a TLA+ string, with Undefined for an absent property.  A      *)
(* string the code takes apart (split) or builds (template literal) is a   *)
(* sequence of tokens.  An optional object is <<>> (absent) or <<obj>>.    *)
(***************************************************************************)
EXTENDS Integers, Sequences, FiniteSets, TLC

VARIABLES
    headers,      \* names of the request headers of the webhook delivery
    payload,      \* the webhook payload
    hookResult,   \* completion of _parseHook(headers, payload)
    canHandle,    \* completion of _canHandleWebhook(headers, payload)
    op,           \* the adapter operation in flight, or "none"
    pc,           \* "idle", or the caller tag of the runCommand awaited, or "done"
    args,         \* the config object the operation was called with
    request,      \* the options object last handed to breaker.runCommand
    settled,      \* how that runCommand settled
    locals,       \* values the operation's closures captured so far
    outcome,      \* completion of the operation's promise
    calls,        \* the runCommand invocations of the operation that have settled
    breaker,      \* state of this.breaker
    projectHooks, \* the hooks the provider holds for the project
    registrations \* the _addWebhook calls of concurrent callers, by caller

hookVars == <<headers, payload, hookResult, canHandle>>
opVars == <<op, pc, args, request, settled, locals, outcome, calls, breaker,
            projectHooks, registrations>>
vars == <<headers, payload, hookResult, canHandle, op, pc, args, request, settled,
          locals, outcome, calls, breaker, projectHooks, registrations>>

----------------------------------------------------------------------------
(* Bounds of the model *)

\* longest commits array of a push payload
MaxCommits == 2

\* consecutive failures after which the breaker opens (fusebox configuration)
MaxFailures == 2

\* callers that have an _addWebhook in flight at the same time
NumCallers == 2

\* largest access level a project lookup answers with
MaxLevel == 61

----------------------------------------------------------------------------
(* JavaScript values *)

Undefined == "undefined"

NotCalled == [state |-> "notCalled"]

\* a promise fulfilled with v
Resolved(v) == [state |-> "resolved", value |-> v]

\* a promise rejected with e
Rejected(e) == [state |-> "rejected", error |-> e]

\* an exception thrown synchronously out of the call (no promise is returned)
Thrown(e) == [state |-> "thrown", error |-> e]

TypeError == "TypeError"

\* String.prototype.split on a one-token separator: "a/b" -> ["a","b"],
\* "" -> [""], "a/" -> ["a",""]
RECURSIVE SplitFrom(_, _, _, _)
SplitFrom(s, sep, i, cur) ==
    IF i > Len(s) THEN <<cur>>
    ELSE IF s[i] = sep THEN <<cur>> \o SplitFrom(s, sep, i + 1, <<>>)
    ELSE SplitFrom(s, sep, i + 1, Append(cur, s[i]))

Split(s, sep) == SplitFrom(s, sep, 1, <<>>)

\* decimal digits of a natural number, as `${n}` writes them
RECURSIVE Digits(_)
Digits(n) ==
    LET d == <<"0", "1", "2", "3", "4", "5", "6", "7", "8", "9">>
    IN  IF n < 10 THEN <<d[n + 1]>> ELSE Digits(n \div 10) \o <<d[(n % 10) + 1]>>

\* mutant: the path 'commits.0.message', the first commit instead of the last
ReachFirstCommitMessage(p) ==
    IF p.commits = <<>> THEN <<>>
    ELSE LET commits == p.commits[1]
         IN  IF Len(commits) = 0 THEN <<>> ELSE commits[1].message

\* Hoek.reach(obj, 'commits.-1.message', { default: '' }): the message of the
\* last element of commits; the default when commits is absent or empty
ReachLastCommitMessage(p) ==
    IF p.commits = <<>> THEN <<>>
    ELSE LET commits == p.commits[1]
         IN  IF Len(commits) = 0 THEN <<>> ELSE commits[Len(commits)].message

----------------------------------------------------------------------------
(* Configuration (constructor) *)

\* this.config.gitlabHost
gitlabHost == "git.example"

\* this.config.gitlabProtocol
gitlabProtocol == "https"

\* _getScmContexts()
getScmContexts == << <<"gitlab", ":", gitlabHost>> >>

----------------------------------------------------------------------------
(* Webhook deliveries *)

HeaderSets == SUBSET {"x-gitlab-event", "content-type"}

Messages == {<<"fix", " ", "bug">>, <<"wip">>}

CommitLists ==
    UNION {[1..n -> [message : Messages]] : n \in 0..MaxCommits}

Refs == {<<"refs", "/", "heads", "/", "main">>,
         <<"refs", "/", "heads", "/", "feature", "/", "x">>,
         <<"main">>,
         <<>>}

NoPush == [event_name |-> Undefined, user_name |-> Undefined, project |-> <<>>,
           ref |-> <<>>, checkout_sha |-> Undefined, commits |-> <<>>]

NoMergeRequest == [object_attributes |-> <<>>, user |-> <<>>]

PushFields ==
    [event_name : {"push", "tag_push", Undefined},
     user_name : {"alice", Undefined},
     project : {<<>>, <<[git_http_url |-> "https://git.example/x/y"]>>},
     ref : {<<>>} \cup {<<r>> : r \in Refs},
     checkout_sha : {"abc123"},
     commits : {<<>>} \cup {<<c>> : c \in CommitLists}]

MergeRequests ==
    [state : {"opened", "reopened", "closed", "merged", "locked", Undefined},
     source : {<<>>, <<[git_http_url |-> "https://git.example/fork/y"]>>},
     target_branch : {"main"},
     last_commit : {<<>>, <<[id |-> "def456"]>>},
     iid : {7, 42}]

MergeRequestFields ==
    [object_attributes : {<<>>} \cup {<<m>> : m \in MergeRequests},
     user : {<<>>, <<[username |-> "bob"]>>}]

\* f extended with the fields of g
Merge(f, g) ==
    [k \in (DOMAIN f) \cup (DOMAIN g) |-> IF k \in DOMAIN f THEN f[k] ELSE g[k]]

Payloads ==
    {Merge([object_kind |-> "push"], Merge(f, NoMergeRequest)) : f \in PushFields}
    \cup {Merge([object_kind |-> "merge_request"], Merge(NoPush, f)) :
            f \in MergeRequestFields}
    \cup {Merge([object_kind |-> k], Merge(NoPush, NoMergeRequest)) :
            k \in {"tag_push", "note", Undefined}}

\* _parseHook, case 'push'
parseHookPush(p) ==
    IF p.event_name # "push" THEN Resolved(<<>>)
    ELSE IF p.project = <<>> THEN Thrown(TypeError)
    ELSE IF p.ref = <<>> THEN Thrown(TypeError)
    ELSE LET segments == Split(p.ref[1], "/")
         IN  Resolved(<<[hookId |-> "null",
                         scmContext |-> getScmContexts[1],
                         type |-> "repo",
                         action |-> "push",
                         username |-> p.user_name,
                         checkoutUrl |-> p.project[1].git_http_url,
                         branch |-> segments[Len(segments)],
                         sha |-> p.checkout_sha,
                         lastCommitMessage |-> ReachLastCommitMessage(p)]>>)

\* mutant: the final else falls into the closed branch instead of returning null
mergeRequestActionNoReject(state) ==
    IF state = "opened" THEN "opened"
    ELSE IF state = "reopened" THEN "reopened"
    ELSE "closed"

\* mutant: merged is not folded into closed
mergeRequestActionMerged(state) ==
    IF state = "opened" THEN "opened"
    ELSE IF state = "reopened" THEN "reopened"
    ELSE IF state = "closed" THEN "closed"
    ELSE IF state = "merged" THEN "merged"
    ELSE "null"

\* the if / else-if chain on mergeRequest.state; "null" is the early return
mergeRequestAction(state) ==
    IF state = "opened" THEN "opened"
    ELSE IF state = "reopened" THEN "reopened"
    ELSE IF state = "closed" \/ state = "merged" THEN "closed"
    ELSE "null"

\* _parseHook, case 'merge_request'
parseHookMergeRequest(p) ==
    IF p.object_attributes = <<>> THEN Thrown(TypeError)
    ELSE LET mergeRequest == p.object_attributes[1]
             action == mergeRequestAction(mergeRequest.state)
         IN  IF action = "null" THEN Resolved(<<>>)
             ELSE IF p.user = <<>> THEN Thrown(TypeError)
             ELSE IF mergeRequest.source = <<>> THEN Thrown(TypeError)
             ELSE IF mergeRequest.last_commit = <<>> THEN Thrown(TypeError)
             ELSE Resolved(<<[hookId |-> "null",
                              scmContext |-> getScmContexts[1],
                              action |-> action,
                              type |-> "pr",
                              username |-> p.user[1].username,
                              checkoutUrl |-> mergeRequest.source[1].git_http_url,
                              branch |-> mergeRequest.target_branch,
                              sha |-> mergeRequest.last_commit[1].id,
                              prNum |-> mergeRequest.iid,
                              prRef |-> <<"merge_requests", "/">>
                                          \o Digits(mergeRequest.iid)]>>)

\* _parseHook(payloadHeaders, webhookPayload): Resolved(<<>>) is a promise of
\* null, Resolved(<<e>>) a promise of the event e; a property read of
\* undefined throws before any promise exists
parseHook(h, p) ==
    IF p.object_kind = "push" THEN parseHookPush(p)
    ELSE IF p.object_kind = "merge_request" THEN parseHookMergeRequest(p)
    ELSE Resolved(<<>>)

\* mutant: the x-gitlab-event guard is missing
canHandleWebhookNoHeaderCheck(h, p) ==
    LET r == parseHook(h, p)
    IN  IF r.state = "thrown" THEN Thrown(r.error)
        ELSE IF r.state = "rejected" THEN Resolved(FALSE)
        ELSE Resolved(r.value # <<>>)

\* _canHandleWebhook(headers, payload): .then/.catch are attached to the
\* promise _parseHook returns, so they see its settlement, not a throw of the
\* call itself
canHandleWebhookOf(h, p) ==
    IF "x-gitlab-event" \notin h THEN Resolved(FALSE)
    ELSE LET r == parseHook(h, p)
         IN  IF r.state = "thrown" THEN Thrown(r.error)
             ELSE IF r.state = "rejected" THEN Resolved(FALSE)
             ELSE Resolved(r.value # <<>>)

\* the orchestrator calls normalizeWebhook on the delivery
ParseHook ==
    /\ hookResult = NotCalled
    /\ hookResult' = parseHook(headers, payload)
    /\ UNCHANGED <<headers, payload, canHandle>>
    /\ UNCHANGED opVars

\* the orchestrator calls canHandleWebhook on the delivery
CanHandleWebhook ==
    /\ canHandle = NotCalled
    /\ canHandle' = canHandleWebhookOf(headers, payload)
    /\ UNCHANGED <<headers, payload, hookResult>>
    /\ UNCHANGED opVars

OpIdle ==
    /\ op = "none"
    /\ pc = "idle"
    /\ args = <<>>
    /\ request = <<>>
    /\ settled = NotCalled
    /\ locals = <<>>
    /\ outcome = NotCalled
    /\ calls = <<>>
    /\ breaker = [state |-> "closed", failures |-> 0]
    /\ registrations = <<>>

HookInit ==
    /\ headers \in HeaderSets
    /\ payload \in Payloads
    /\ hookResult = NotCalled
    /\ canHandle = NotCalled
    /\ OpIdle
    /\ projectHooks = <<>>

HookNext == ParseHook \/ CanHandleWebhook

HookSpec == HookInit /\ [][HookNext]_vars

----------------------------------------------------------------------------
(* Mapping tables and helpers of the network-backed operations *)

\* mutant: the fallback of an unmapped status is 'success'
stateOfDefaultSuccess(buildStatus) ==
    IF buildStatus = "RUNNING" THEN "pending"
    ELSE IF buildStatus = "QUEUED" THEN "pending"
    ELSE "success"

\* STATE_MAP[buildStatus] || 'failure'
stateOf(buildStatus) ==
    IF buildStatus = "SUCCESS" THEN "success"
    ELSE IF buildStatus = "RUNNING" THEN "pending"
    ELSE IF buildStatus = "QUEUED" THEN "pending"
    ELSE "failure"

\* DESCRIPTION_MAP[buildStatus]
descriptionOf(buildStatus) ==
    IF buildStatus = "SUCCESS" THEN "Everything looks good!"
    ELSE IF buildStatus = "FAILURE" THEN "Did not work as expected."
    ELSE IF buildStatus = "ABORTED" THEN "Aborted mid-flight"
    ELSE IF buildStatus = "RUNNING" THEN "Testing your code..."
    ELSE IF buildStatus = "QUEUED" THEN "Looking for a place to park..."
    ELSE Undefined

\* JSON.stringify(response.body)
Stringify(body) == <<"JSON", body>>

\* mutant: no early return for the caller _updateCommitStatus
checkResponseErrorEveryCaller(response, caller) ==
    IF response.statusCode >= 200 /\ response.statusCode < 300 THEN <<>>
    ELSE <<[name |-> "Error",
            errorCode |-> response.statusCode,
            errorReason |-> IF "message" \in DOMAIN response.body
                            THEN response.body.message
                            ELSE <<"JSON", response.body>>,
            caller |-> caller]>>

\* checkResponseError(response, caller): <<>> when it returns, <<e>> when it
\* throws the Error e
checkResponseError(response, caller) ==
    IF caller = "_updateCommitStatus" THEN <<>>
    ELSE IF response.statusCode >= 200 /\ response.statusCode < 300 THEN <<>>
    ELSE <<[name |-> "Error",
            errorCode |-> response.statusCode,
            errorReason |-> IF "message" \in DOMAIN response.body
                            THEN response.body.message
                            ELSE Stringify(response.body),
            caller |-> caller]>>

\* the i-th element of a destructured array: <<>> for undefined
Part(parts, i) == IF i <= Len(parts) THEN <<parts[i]>> ELSE <<>>

\* `${x}` of an optional string
Str(x) == IF x = <<>> THEN <<"undefined">> ELSE x[1]

\* getScmUriParts(scmUri)
getScmUriParts(scmUri) ==
    LET parts == Split(scmUri, ":")
    IN  [hostname |-> Part(parts, 1), repoId |-> Part(parts, 2), branch |-> Part(parts, 3)]

\* getRepoInfoByCheckoutUrl(checkoutUrl), on the groups the CHECKOUT_URL
\* regex matched: <<>> when matched[4].slice(1) throws on an absent group
getRepoInfoByCheckoutUrl(matched) ==
    IF matched.branch = <<>> THEN <<>>
    ELSE <<[hostname |-> matched.hostname,
            reponame |-> matched.reponame,
            branch |-> Tail(matched.branch[1]),
            owner |-> matched.owner]>>

\* mutant: case 30 breaks instead of falling through to case 20
permissionsOfNoFallthrough(accessLevel) ==
    IF accessLevel = 50 \/ accessLevel = 40
    THEN [admin |-> TRUE, push |-> TRUE, pull |-> TRUE]
    ELSE IF accessLevel = 30 THEN [admin |-> FALSE, push |-> TRUE, pull |-> FALSE]
    ELSE IF accessLevel = 20 THEN [admin |-> FALSE, push |-> FALSE, pull |-> TRUE]
    ELSE [admin |-> FALSE, push |-> FALSE, pull |-> FALSE]

\* mutant: case 40 sits below result.admin = true
permissionsOfMasterNoAdmin(accessLevel) ==
    IF accessLevel = 50 THEN [admin |-> TRUE, push |-> TRUE, pull |-> TRUE]
    ELSE IF accessLevel = 40 \/ accessLevel = 30
    THEN [admin |-> FALSE, push |-> TRUE, pull |-> TRUE]
    ELSE IF accessLevel = 20 THEN [admin |-> FALSE, push |-> FALSE, pull |-> TRUE]
    ELSE [admin |-> FALSE, push |-> FALSE, pull |-> FALSE]

\* the switch on accessLevel in _getPermissions
permissionsOf(accessLevel) ==
    IF accessLevel = 50 \/ accessLevel = 40
    THEN [admin |-> TRUE, push |-> TRUE, pull |-> TRUE]
    ELSE IF accessLevel = 30 THEN [admin |-> FALSE, push |-> TRUE, pull |-> TRUE]
    ELSE IF accessLevel = 20 THEN [admin |-> FALSE, push |-> FALSE, pull |-> TRUE]
    ELSE [admin |-> FALSE, push |-> FALSE, pull |-> FALSE]

\* Hoek.reach(permissions, 'project_access.access_level', { default: 0 })
ReachAccessLevel(permissions) ==
    IF permissions = <<>> THEN 0
    ELSE IF permissions[1].project_access = <<>> THEN 0
    ELSE permissions[1].project_access[1].access_level

DEFAULT_AUTHOR ==
    [avatar |-> "https://cd.screwdriver.cd/assets/unknown_user.png",
     name |-> "n/a",
     username |-> "n/a",
     url |-> "https://cd.screwdriver.cd/"]

\* `${gitlabProtocol}://${gitlabHost}/api/v4`
ApiBase == <<gitlabProtocol, "://", gitlabHost, "/api/v4">>

GetRequest(url) == [method |-> "GET", url |-> url, qs |-> <<>>]

----------------------------------------------------------------------------
(* Inputs of the operations and answers of the provider *)

ScmUris == {<<"git.example", ":", "1234", ":", "master">>,
            <<"git.example", ":", "1234">>}

BuildStatuses == {"SUCCESS", "FAILURE", "ABORTED", "RUNNING", "QUEUED",
                  "CREATED", "BLOCKED", "UNSTABLE", Undefined}

JobNames == {<<>>, <<"main">>}

WebhookUrls == {"https://sd.example/v4/webhooks"}

\* the groups of a CHECKOUT_URL match: hostname, owner, reponame, #branch
CheckoutUrls ==
    [hostname : {gitlabHost, "other.example"},
     owner : {"x"},
     reponame : {"y"},
     branch : {<<>>, <<<<"#", "master">>>>, <<<<"#", "dev">>>>}]

Levels == 0..MaxLevel

SuccessCodes == {200, 201, 299}

FailureCodes == {199, 300, 404, 500}

ErrorBodies == {[message |-> "404 Project Not Found"], [error |-> "unavailable"]}

Users == {[web_url |-> "https://git.example/alice", name |-> "Alice",
           username |-> "alice", avatar_url |-> "https://git.example/a.png"]}

\* the hooks a project holds before the adapter is used on it
InitialHooks ==
    {<<>>,
     <<[id |-> 1, url |-> "https://sd.example/v4/webhooks"]>>,
     <<[id |-> 2, url |-> "https://ci.example/hook"]>>,
     <<[id |-> 2, url |-> "https://ci.example/hook"],
       [id |-> 1, url |-> "https://sd.example/v4/webhooks"]>>}

\* a response body that is a JSON array
Array(elements) == [array |-> elements]

\* the bodies the provider answers a successful call of each kind with
SuccessBodies(tag) ==
    IF tag = "lookupScmUri"
    THEN {[path_with_namespace |-> <<"x", "/", "y">>],
          [path_with_namespace |-> <<"g", "/", "sub", "/", "y">>]}
    ELSE IF tag = "_findWebhook"
    THEN {Array(projectHooks)}
    ELSE IF tag = "_parseUrl" THEN {[id |-> 1234]}
    ELSE IF tag = "_decorateCommit: commitLookup"
    THEN [author_name : {Undefined, "", "alice"}, message : {"fix bug"}]
    ELSE IF tag = "_decorateAuthor" THEN {Array(<<>>)} \cup {Array(<<u>>) : u \in Users}
    ELSE IF tag = "_getPermissions"
    THEN {[permissions |-> <<>>], [permissions |-> <<[project_access |-> <<>>]>>]}
         \cup {[permissions |-> <<[project_access |-> <<[access_level |-> l]>>]>>] :
                 l \in Levels}
    ELSE IF tag = "_getCommitSha" THEN {[commit |-> [id |-> "abc123"]]}
    ELSE IF tag = "_getFile"
    THEN {[content |-> [encoded |-> "base64", text |-> "jobs: {}"], encoding |-> "base64"]}
    ELSE IF tag = "_getOpenedPRs"
    THEN {Array(<<>>), Array(<<[iid |-> 7]>>), Array(<<[iid |-> 7], [iid |-> 42]>>)}
    ELSE {[id |-> 1]}

Responses(tag) ==
    {[statusCode |-> c, body |-> b] : c \in SuccessCodes, b \in SuccessBodies(tag)}
    \cup {[statusCode |-> c, body |-> b] : c \in FailureCodes, b \in ErrorBodies}

\* what breaker.runCommand rejects with: the breaker short-circuiting the
\* call, or the transport failing
CallErrors == {"CircuitOpen", "ETIMEDOUT"}

----------------------------------------------------------------------------
(* The operations: the synchronous part of each call *)

\* hand a request to breaker.runCommand and await it at the call site tag
Issue(tag, req) ==
    /\ pc' = tag
    /\ request' = req
    /\ settled' = NotCalled

\* the operation's promise settles, or the call throws
Complete(o) ==
    /\ pc' = "done"
    /\ outcome' = o
    /\ UNCHANGED <<request, settled>>

Begin(name, a) ==
    /\ op = "none"
    /\ pc = "idle"
    /\ op' = name
    /\ args' = a
    /\ locals' = <<>>
    /\ calls' = <<>>
    /\ UNCHANGED <<breaker, projectHooks>>
    /\ UNCHANGED <<hookVars, registrations>>

ProjectUrl(repoId) == ApiBase \o <<"/projects/">> \o Str(repoId)

\* the runCommand of lookupScmUri
lookupRequest(scmUri) == GetRequest(ProjectUrl(getScmUriParts(scmUri).repoId))

Call_lookupScmUri ==
    \E u \in ScmUris :
        /\ Begin("lookupScmUri", [scmUri |-> u])
        /\ Issue("lookupScmUri", lookupRequest(u))
        /\ outcome' = NotCalled

Call_decorateUrl ==
    \E u \in ScmUris :
        /\ Begin("_decorateUrl", [scmUri |-> u])
        /\ Issue("lookupScmUri", lookupRequest(u))
        /\ outcome' = NotCalled

Call_decorateCommit ==
    \E u \in ScmUris :
        /\ Begin("_decorateCommit", [scmUri |-> u, sha |-> "abc123"])
        /\ Issue("lookupScmUri", lookupRequest(u))
        /\ outcome' = NotCalled

authorRequest(username) ==
    [method |-> "GET", url |-> ApiBase \o <<"/users">>, qs |-> [username |-> username]]

Call_decorateAuthor ==
    /\ Begin("_decorateAuthor", [username |-> "alice"])
    /\ Issue("_decorateAuthor", authorRequest("alice"))
    /\ outcome' = NotCalled

Call_addWebhook ==
    \E u \in ScmUris, w \in WebhookUrls :
        /\ Begin("_addWebhook", [scmUri |-> u, webhookUrl |-> w])
        /\ Issue("_findWebhook",
                 GetRequest(ProjectUrl(getScmUriParts(u).repoId) \o <<"/hooks">>))
        /\ outcome' = NotCalled

Call_parseUrl ==
    \E m \in CheckoutUrls :
        /\ Begin("_parseUrl", [checkoutUrl |-> m])
        /\ LET info == getRepoInfoByCheckoutUrl(m)
           IN  IF info = <<>>
               THEN Complete(Thrown(TypeError))
               ELSE IF info[1].hostname # gitlabHost
               THEN Complete(Rejected(
                        "This checkoutUrl is not supported for your current login host."))
               ELSE /\ Issue("_parseUrl",
                             GetRequest(ApiBase \o <<"/projects/", info[1].owner, "%2F",
                                                     info[1].reponame>>))
                    /\ outcome' = NotCalled

Call_getPermissions ==
    \E u \in ScmUris :
        /\ Begin("_getPermissions", [scmUri |-> u])
        /\ Issue("_getPermissions", GetRequest(ProjectUrl(getScmUriParts(u).repoId)))
        /\ outcome' = NotCalled

Call_getCommitSha ==
    \E u \in ScmUris :
        /\ Begin("_getCommitSha", [scmUri |-> u])
        /\ LET repoInfo == getScmUriParts(u)
           IN  Issue("_getCommitSha",
                     GetRequest(ProjectUrl(repoInfo.repoId) \o <<"/repository", "/branches/">>
                                \o Str(repoInfo.branch)))
        /\ outcome' = NotCalled

\* the options _updateCommitStatus hands to runCommand
statusRequest(config) ==
    LET repoInfo == getScmUriParts(config.scmUri)
        context == IF config.jobName # <<>>
                   THEN <<"Screwdriver", "/", config.jobName[1]>>
                   ELSE <<"Screwdriver">>
    IN  [method |-> "POST",
         url |-> ProjectUrl(repoInfo.repoId) \o <<"/statuses/", config.sha>>,
         qs |-> [context |-> context,
                 description |-> descriptionOf(config.buildStatus),
                 state |-> stateOf(config.buildStatus),
                 target_url |-> config.url]]

Call_updateCommitStatus ==
    \E u \in ScmUris, b \in BuildStatuses, j \in JobNames :
        LET config == [scmUri |-> u, sha |-> "abc123", buildStatus |-> b,
                       jobName |-> j, url |-> "https://sd.example/builds/1"]
        IN  /\ Begin("_updateCommitStatus", config)
            /\ Issue("_updateCommitStatus", statusRequest(config))
            /\ outcome' = NotCalled

Call_getFile ==
    \E u \in ScmUris, r \in {<<>>, <<<<"abc123">>>>} :
        /\ Begin("_getFile", [scmUri |-> u, path |-> "screwdriver.yaml", ref |-> r])
        /\ LET repoInfo == getScmUriParts(u)
           IN  Issue("_getFile",
                     [method |-> "GET",
                      url |-> ProjectUrl(repoInfo.repoId)
                                \o <<"/repository", "/files/", "screwdriver.yaml">>,
                      qs |-> [ref |-> IF r # <<>> THEN r ELSE repoInfo.branch]])
        /\ outcome' = NotCalled

Call_getOpenedPRs ==
    \E u \in ScmUris :
        /\ Begin("_getOpenedPRs", [scmUri |-> u])
        /\ Issue("_getOpenedPRs",
                 [method |-> "GET",
                  url |-> ProjectUrl(getScmUriParts(u).repoId) \o <<"/merge_requests">>,
                  qs |-> [state |-> "opened"]])
        /\ outcome' = NotCalled

----------------------------------------------------------------------------
(* breaker.runCommand settling, and the .then callback of each call site *)

Tags == {"lookupScmUri", "_findWebhook", "_createWebhook", "_parseUrl",
         "_decorateCommit: commitLookup", "_decorateAuthor", "_getPermissions",
         "_getCommitSha", "_updateCommitStatus", "_getFile", "_getOpenedPRs"}

\* the breaker of section 4.2 after a call that passed through and succeeded
OnSuccess(b) == [state |-> "closed", failures |-> 0]

\* a breaker that counts failures and never opens
OnFailureNeverOpens(b) ==
    [state |-> "closed", failures |-> (b.failures + 1) % MaxFailures]

\* the breaker of section 4.2 after a call that passed through and failed
OnFailure(b) ==
    IF b.state = "halfOpen" \/ b.failures + 1 >= MaxFailures
    THEN [state |-> "open", failures |-> MaxFailures]
    ELSE [state |-> "closed", failures |-> b.failures + 1]

\* the cool-down window of the open breaker elapses
CoolDownElapses ==
    /\ breaker.state = "open"
    /\ breaker' = [breaker EXCEPT !.state = "halfOpen"]
    /\ UNCHANGED <<op, pc, args, request, settled, locals, outcome, calls,
                   projectHooks>>
    /\ UNCHANGED <<hookVars, registrations>>

Is2xx(code) == code >= 200 /\ code < 300

\* the provider's hooks after it has carried out a write: POST adds a hook
\* under a fresh id, PUT edits the hook of the id in the url
ApplyWrite(hs, method, hookInfo, url) ==
    IF method = "POST"
    THEN LET ids == {hs[i].id : i \in 1..Len(hs)}
             fresh == CHOOSE n \in 1..(Len(hs) + 1) : n \notin ids
         IN  Append(hs, [id |-> fresh, url |-> url])
    ELSE [i \in 1..Len(hs) |->
            IF hs[i].id = hookInfo[1].id THEN [hs[i] EXCEPT !.url = url] ELSE hs[i]]

\* the hooks after the provider has carried out the request in flight
AfterRequest ==
    IF pc = "_createWebhook"
    THEN ApplyWrite(projectHooks, request.method, locals.hookInfo, request.qs.url)
    ELSE projectHooks

\* an entry of calls: how the runCommand at the call site settled
Settlement(status) == [tag |-> pc, method |-> request.method, status |-> status]

\* the provider answers and runCommand resolves with the response
RunCommandResolves ==
    /\ pc \in Tags
    /\ settled = NotCalled
    /\ breaker.state # "open"
    /\ \E r \in Responses(pc) :
          /\ settled' = Resolved(r)
          /\ projectHooks' = IF Is2xx(r.statusCode) THEN AfterRequest
                             ELSE projectHooks
          /\ calls' = Append(calls, Settlement(IF Is2xx(r.statusCode) THEN "2xx"
                                               ELSE "non2xx"))
    /\ breaker' = OnSuccess(breaker)
    /\ UNCHANGED <<op, pc, args, request, locals, outcome>>
    /\ UNCHANGED <<hookVars, registrations>>

\* the breaker refuses the call without touching the network, or the call
\* passes through and the transport fails (the request may have been carried
\* out, its response lost)
RunCommandRejects ==
    /\ pc \in Tags
    /\ settled = NotCalled
    /\ \E e \in CallErrors :
          /\ settled' = Rejected(e)
          /\ IF breaker.state = "open"
             THEN /\ e = "CircuitOpen"
                  /\ calls' = Append(calls, Settlement("refused"))
                  /\ UNCHANGED <<breaker, projectHooks>>
             ELSE /\ e # "CircuitOpen"
                  /\ calls' = Append(calls, Settlement("failed"))
                  /\ breaker' = OnFailure(breaker)
                  /\ projectHooks' \in {projectHooks, AfterRequest}
    /\ UNCHANGED <<op, pc, args, request, locals, outcome>>
    /\ UNCHANGED <<hookVars, registrations>>

\* no call site attaches a rejection handler: a rejected runCommand skips the
\* .then callbacks and rejects the operation's promise
Propagate ==
    /\ pc \in Tags
    /\ settled.state = "rejected"
    /\ Complete(Rejected(settled.error))
    /\ UNCHANGED <<op, args, locals, calls, breaker, projectHooks>>
    /\ UNCHANGED <<hookVars, registrations>>

\* the callback at call site tag is about to run on a response
Then(tag) ==
    /\ pc = tag
    /\ settled.state = "resolved"
    /\ UNCHANGED <<op, args, calls, breaker, projectHooks>>
    /\ UNCHANGED <<hookVars, registrations>>

\* the callback throws what checkResponseError threw
Throws(tag) == checkResponseError(settled.value, tag) # <<>>

Rethrow(tag) ==
    /\ Complete(Rejected(checkResponseError(settled.value, tag)[1]))
    /\ UNCHANGED locals

\* the object lookupScmUri resolves to
scmInfoOf(scmUri, body) ==
    LET scmInfo == getScmUriParts(scmUri)
        names == Split(body.path_with_namespace, "/")
    IN  [branch |-> scmInfo.branch,
         hostname |-> scmInfo.hostname,
         reponame |-> Part(names, 2),
         owner |-> Part(names, 1)]

\* the object _decorateUrl resolves to
decoratedUrl(scmInfo) ==
    [branch |-> scmInfo.branch,
     name |-> Str(scmInfo.owner) \o <<"/">> \o Str(scmInfo.reponame),
     url |-> <<gitlabProtocol, "://">> \o Str(scmInfo.hostname) \o <<"/">>
               \o Str(scmInfo.owner) \o <<"/">> \o Str(scmInfo.reponame)
               \o <<"/tree/">> \o Str(scmInfo.branch)]

\* the object _decorateCommit resolves to
decoratedCommit(commitData, authorData, sha) ==
    [author |-> authorData,
     message |-> commitData.commitInfo.message,
     url |-> <<gitlabProtocol, "://", gitlabHost, "/">>
               \o Str(commitData.scmInfo.owner) \o <<"/">>
               \o Str(commitData.scmInfo.reponame) \o <<"/tree/", sha>>]

Then_lookupScmUri ==
    /\ Then("lookupScmUri")
    /\ IF Throws("lookupScmUri") THEN Rethrow("lookupScmUri")
       ELSE LET scmInfo == scmInfoOf(args.scmUri, settled.value.body)
            IN  IF op = "lookupScmUri"
                THEN Complete(Resolved(scmInfo)) /\ UNCHANGED locals
                ELSE IF op = "_decorateUrl"
                THEN Complete(Resolved(decoratedUrl(scmInfo))) /\ UNCHANGED locals
                ELSE /\ Issue("_decorateCommit: commitLookup",
                              GetRequest(ApiBase \o <<"/projects/">> \o Str(scmInfo.owner)
                                         \o <<"%2F">> \o Str(scmInfo.reponame)
                                         \o <<"/repository", "/commits/", args.sha>>))
                     /\ locals' = [scmInfo |-> scmInfo]
                     /\ UNCHANGED outcome

\* a commitLookup callback that looks the author up whatever the commit names
Then_commitLookupAlwaysAuthor ==
    /\ Then("_decorateCommit: commitLookup")
    /\ IF Throws("_decorateCommit: commitLookup")
       THEN Rethrow("_decorateCommit: commitLookup")
       ELSE LET commitData == [commitInfo |-> settled.value.body,
                               scmInfo |-> locals.scmInfo]
            IN  /\ Issue("_decorateAuthor",
                         authorRequest(commitData.commitInfo.author_name))
                /\ locals' = commitData
                /\ UNCHANGED outcome

\* the commitLookup callback of _decorateCommit, and the authorLookup chained
\* on it
Then_commitLookup ==
    /\ Then("_decorateCommit: commitLookup")
    /\ IF Throws("_decorateCommit: commitLookup")
       THEN Rethrow("_decorateCommit: commitLookup")
       ELSE LET commitData == [commitInfo |-> settled.value.body,
                               scmInfo |-> locals.scmInfo]
                author_name == commitData.commitInfo.author_name
            IN  IF author_name = Undefined \/ author_name = ""
                THEN /\ Complete(Resolved(
                            decoratedCommit(commitData, DEFAULT_AUTHOR, args.sha)))
                     /\ locals' = commitData
                ELSE /\ Issue("_decorateAuthor", authorRequest(author_name))
                     /\ locals' = commitData
                     /\ UNCHANGED outcome

\* the object _decorateAuthor resolves to: Hoek.reach(response, 'body.0', ...)
authorOf(body) ==
    IF Len(body) = 0
    THEN [url |-> DEFAULT_AUTHOR.url, name |-> DEFAULT_AUTHOR.name,
          username |-> DEFAULT_AUTHOR.username, avatar |-> DEFAULT_AUTHOR.avatar]
    ELSE [url |-> body[1].web_url, name |-> body[1].name,
          username |-> body[1].username, avatar |-> body[1].avatar_url]

Then_decorateAuthor ==
    /\ Then("_decorateAuthor")
    /\ UNCHANGED locals
    /\ IF Throws("_decorateAuthor")
       THEN Complete(Rejected(checkResponseError(settled.value, "_decorateAuthor")[1]))
       ELSE LET author == authorOf(settled.value.body.array)
            IN  IF op = "_decorateAuthor"
                THEN Complete(Resolved(author))
                ELSE Complete(Resolved(decoratedCommit(locals, author, args.sha)))

\* a lookup that finds no hook
findHookNever(hooks, url) == <<>>

\* hooks.find(hook => hook.url === config.url)
findHook(hooks, url) ==
    LET found == {i \in 1..Len(hooks) : hooks[i].url = url}
    IN  IF found = {} THEN <<>>
        ELSE <<hooks[CHOOSE i \in found : \A j \in found : i <= j]>>

\* the options _createWebhook hands to runCommand
webhookRequest(config) ==
    LET repoInfo == getScmUriParts(config.scmUri)
        hooksUrl == ProjectUrl(repoInfo.repoId) \o <<"/hooks">>
        params == [url |-> config.url, push_events |-> TRUE,
                   merge_requests_events |-> TRUE]
    IN  IF config.hookInfo # <<>>
        THEN [method |-> "PUT",
              url |-> hooksUrl \o <<"/">> \o Digits(config.hookInfo[1].id),
              qs |-> params]
        ELSE [method |-> "POST", url |-> hooksUrl, qs |-> params]

Then_findWebhook ==
    /\ Then("_findWebhook")
    /\ IF Throws("_findWebhook") THEN Rethrow("_findWebhook")
       ELSE LET hookInfo == findHook(settled.value.body.array, args.webhookUrl)
            IN  /\ Issue("_createWebhook",
                         webhookRequest([hookInfo |-> hookInfo, scmUri |-> args.scmUri,
                                         url |-> args.webhookUrl]))
                /\ locals' = [hookInfo |-> hookInfo]
                /\ UNCHANGED outcome

Then_createWebhook ==
    /\ Then("_createWebhook")
    /\ IF Throws("_createWebhook") THEN Rethrow("_createWebhook")
       ELSE Complete(Resolved(Undefined)) /\ UNCHANGED locals

Then_parseUrl ==
    /\ Then("_parseUrl")
    /\ IF Throws("_parseUrl") THEN Rethrow("_parseUrl")
       ELSE LET repoInfo == getRepoInfoByCheckoutUrl(args.checkoutUrl)[1]
            IN  /\ Complete(Resolved(<<repoInfo.hostname, ":">>
                                     \o Digits(settled.value.body.id)
                                     \o <<":">> \o repoInfo.branch))
                /\ UNCHANGED locals

Then_getPermissions ==
    /\ Then("_getPermissions")
    /\ IF Throws("_getPermissions") THEN Rethrow("_getPermissions")
       ELSE /\ Complete(Resolved(
                   permissionsOf(ReachAccessLevel(settled.value.body.permissions))))
            /\ UNCHANGED locals

Then_getCommitSha ==
    /\ Then("_getCommitSha")
    /\ IF Throws("_getCommitSha") THEN Rethrow("_getCommitSha")
       ELSE Complete(Resolved(settled.value.body.commit.id)) /\ UNCHANGED locals

Then_updateCommitStatus ==
    /\ Then("_updateCommitStatus")
    /\ IF Throws("_updateCommitStatus") THEN Rethrow("_updateCommitStatus")
       ELSE Complete(Resolved(Undefined)) /\ UNCHANGED locals

\* new Buffer(content, encoding).toString()
decode(content, encoding) ==
    IF content.encoded = encoding THEN content.text ELSE "garbled"

Then_getFile ==
    /\ Then("_getFile")
    /\ IF Throws("_getFile") THEN Rethrow("_getFile")
       ELSE /\ Complete(Resolved(decode(settled.value.body.content,
                                        settled.value.body.encoding)))
            /\ UNCHANGED locals

\* prList.map(pr => ({ name: `PR-${pr.iid}`, ref: `merge_requests/${pr.iid}` }))
openedPRs(prList) ==
    [i \in 1..Len(prList) |->
        [name |-> <<"PR-">> \o Digits(prList[i].iid),
         ref |-> <<"merge_requests", "/">> \o Digits(prList[i].iid)]]

Then_getOpenedPRs ==
    /\ Then("_getOpenedPRs")
    /\ IF Throws("_getOpenedPRs") THEN Rethrow("_getOpenedPRs")
       ELSE Complete(Resolved(openedPRs(settled.value.body.array))) /\ UNCHANGED locals

\* the orchestrator takes the completion; the adapter is ready for another call
Return ==
    /\ pc = "done"
    /\ op' = "none"
    /\ pc' = "idle"
    /\ args' = <<>>
    /\ request' = <<>>
    /\ settled' = NotCalled
    /\ locals' = <<>>
    /\ outcome' = NotCalled
    /\ calls' = <<>>
    /\ UNCHANGED <<breaker, projectHooks>>
    /\ UNCHANGED <<hookVars, registrations>>

Init ==
    /\ headers = {}
    /\ payload = Merge([object_kind |-> Undefined], Merge(NoPush, NoMergeRequest))
    /\ hookResult = NotCalled
    /\ canHandle = NotCalled
    /\ OpIdle
    /\ projectHooks \in InitialHooks

Next ==
    \/ Call_lookupScmUri
    \/ Call_decorateUrl
    \/ Call_decorateCommit
    \/ Call_decorateAuthor
    \/ Call_addWebhook
    \/ Call_parseUrl
    \/ Call_getPermissions
    \/ Call_getCommitSha
    \/ Call_updateCommitStatus
    \/ Call_getFile
    \/ Call_getOpenedPRs
    \/ RunCommandResolves
    \/ RunCommandRejects
    \/ CoolDownElapses
    \/ Propagate
    \/ Then_lookupScmUri
    \/ Then_commitLookup
    \/ Then_decorateAuthor
    \/ Then_findWebhook
    \/ Then_createWebhook
    \/ Then_parseUrl
    \/ Then_getPermissions
    \/ Then_getCommitSha
    \/ Then_updateCommitStatus
    \/ Then_getFile
    \/ Then_getOpenedPRs
    \/ Return

Spec == Init /\ [][Next]_vars

----------------------------------------------------------------------------
(* Properties of the network-backed operations (Spec) *)

\* the runCommand awaited has resolved with a response whose status is
\* outside [200,300), and its callback has not run yet
NonSuccessPending ==
    /\ pc \in Tags
    /\ settled.state = "resolved"
    /\ ~(settled.value.statusCode >= 200 /\ settled.value.statusCode < 300)

\* the reason a non-2xx response carries: body.message, else the body serialized
ReasonOf(response) ==
    IF "message" \in DOMAIN response.body THEN response.body.message
    ELSE <<"JSON", response.body>>

\* C1: on a response whose status is outside [200,300) the callback of every
\* call site but _updateCommitStatus ends the operation in a rejection that
\* carries the status code and the reason; _updateCommitStatus resolves
C1_NonSuccessFailsExceptStatusUpdate ==
    [][NonSuccessPending =>
         /\ pc' = "done"
         /\ IF op = "_updateCommitStatus"
            THEN outcome'.state = "resolved"
            ELSE /\ outcome'.state = "rejected"
                 /\ outcome'.error.errorCode = settled.value.statusCode
                 /\ outcome'.error.errorReason = ReasonOf(settled.value)]_vars

\* C1 witness: _getCommitSha rejected on a 500 response
C1_Witness ==
    /\ op = "_getCommitSha"
    /\ pc = "done"
    /\ settled.state = "resolved"
    /\ settled.value.statusCode = 500
    /\ outcome.state = "rejected"
    /\ outcome.error.errorCode = 500

\* C2 (as claimed): _updateCommitStatus never completes in an error, also when
\* runCommand is short-circuited by the breaker or the transport fails
C2_StatusUpdateAbsorbsCallErrors ==
    (op = "_updateCommitStatus" /\ pc = "done") => outcome.state = "resolved"

\* the access level the project lookup of _getPermissions answered with
\* (0 when the body carries none)
AnsweredLevel ==
    LET permissions == settled.value.body.permissions
    IN  IF permissions = <<>> THEN 0
        ELSE IF permissions[1].project_access = <<>> THEN 0
        ELSE permissions[1].project_access[1].access_level

\* _getPermissions has resolved with a capability set
PermissionsDone ==
    /\ op = "_getPermissions"
    /\ pc = "done"
    /\ outcome.state = "resolved"

Tiers == {0, 10, 20, 30, 40, 50}

Capabilities(result) == {c \in {"pull", "push", "admin"} : result[c]}

\* C8 (as claimed): over all integer levels, whatever a lower level is granted
\* the answered level is granted too
C8_MonotonicOverAllLevels ==
    PermissionsDone =>
        \A a \in Levels :
            a < AnsweredLevel =>
                Capabilities(permissionsOf(a)) \subseteq Capabilities(outcome.value)

\* C8 (amended): over the provider's access tiers 0/10/20/30/40/50, whatever a
\* lower tier is granted the answered tier is granted too
C8_MonotonicOverTiers ==
    (PermissionsDone /\ AnsweredLevel \in Tiers) =>
        \A a \in Tiers :
            a < AnsweredLevel =>
                Capabilities(permissionsOf(a)) \subseteq Capabilities(outcome.value)

\* C8 witness: a developer (30) is granted what a reporter (20) is
C8_Witness ==
    /\ PermissionsDone
    /\ AnsweredLevel = 30
    /\ Capabilities(outcome.value) = {"pull", "push"}

\* the threshold table of the specification
ThresholdTable(level) ==
    [admin |-> level >= 40, push |-> level >= 30, pull |-> level >= 20]

\* C9 (as claimed): the capability set follows the threshold table at every
\* integer level
C9_ThresholdTableAtEveryLevel ==
    PermissionsDone => outcome.value = ThresholdTable(AnsweredLevel)

\* C9 (amended): the capability set is that of the threshold table at the
\* levels 0 (or absent), 10, 20, 30, 40 and 50, and grants nothing at any
\* other level
C9_TableAtTiersOnly ==
    PermissionsDone =>
        outcome.value = IF AnsweredLevel \in Tiers THEN ThresholdTable(AnsweredLevel)
                        ELSE [admin |-> FALSE, push |-> FALSE, pull |-> FALSE]

\* C9 witness: a maintainer (40) is granted everything
C9_Witness ==
    /\ PermissionsDone
    /\ AnsweredLevel = 40
    /\ outcome.value = [admin |-> TRUE, push |-> TRUE, pull |-> TRUE]

----------------------------------------------------------------------------
(* Properties of the webhook path (HookSpec) *)

\* _parseHook raised on the delivery
NormalizationRaised == hookResult.state \in {"thrown", "rejected"}

\* C3 (as claimed): when normalization raises, canHandleWebhook yields false
C3_CanHandleNeverPropagates ==
    (NormalizationRaised /\ canHandle # NotCalled) => canHandle = Resolved(FALSE)

\* C4: when normalization does not raise, canHandleWebhook yields true iff the
\* x-gitlab-event header is present and _parseHook yields a non-null event;
\* without the header it yields false whatever the payload is
C4_CanHandleIffHeaderAndEvent ==
    /\ (hookResult.state = "resolved" /\ canHandle # NotCalled) =>
          canHandle = Resolved("x-gitlab-event" \in headers /\ hookResult.value # <<>>)
    /\ (canHandle # NotCalled /\ "x-gitlab-event" \notin headers) =>
          canHandle = Resolved(FALSE)

\* C4 witness: header present, an event normalized, canHandleWebhook true
C4_Witness ==
    /\ "x-gitlab-event" \in headers
    /\ hookResult.state = "resolved"
    /\ hookResult.value # <<>>
    /\ canHandle = Resolved(TRUE)

AcceptedStates == {"opened", "reopened", "closed", "merged"}

\* the accept-list of the specification
OnAcceptList ==
    \/ payload.object_kind = "push" /\ payload.event_name = "push"
    \/ /\ payload.object_kind = "merge_request"
       /\ payload.object_attributes # <<>>
       /\ payload.object_attributes[1].state \in AcceptedStates

\* C5: _parseHook yields an event only for a payload on the accept-list; any
\* other kind, any other push sub-type and any other merge-request state
\* yields null
C5_NarrowAcceptList ==
    hookResult # NotCalled =>
        /\ (hookResult.state = "resolved" /\ hookResult.value # <<>>) => OnAcceptList
        /\ payload.object_kind \notin {"push", "merge_request"} =>
              hookResult = Resolved(<<>>)
        /\ (payload.object_kind = "push" /\ payload.event_name # "push") =>
              hookResult = Resolved(<<>>)
        /\ (/\ payload.object_kind = "merge_request"
            /\ payload.object_attributes # <<>>
            /\ payload.object_attributes[1].state \notin AcceptedStates) =>
              hookResult = Resolved(<<>>)

\* C5 witness: a locked merge request normalized to null
C5_Witness ==
    /\ payload.object_kind = "merge_request"
    /\ payload.object_attributes # <<>>
    /\ payload.object_attributes[1].state = "locked"
    /\ hookResult = Resolved(<<>>)

\* the part of a path after its last "/"
LastSegment(path) ==
    LET slashes == {i \in 1..Len(path) : path[i] = "/"}
        last == IF slashes = {} THEN 0
                ELSE CHOOSE i \in slashes : \A j \in slashes : j <= i
    IN  SubSeq(path, last + 1, Len(path))

\* _parseHook accepted a payload of the given kind
Accepted(kind) ==
    /\ payload.object_kind = kind
    /\ hookResult.state = "resolved"
    /\ hookResult.value # <<>>

\* C6: the event of an accepted push payload
C6_PushEvent ==
    Accepted("push") =>
        LET e == hookResult.value[1]
        IN  /\ e.type = "repo"
            /\ e.action = "push"
            /\ e.username = payload.user_name
            /\ e.checkoutUrl = payload.project[1].git_http_url
            /\ e.branch = LastSegment(payload.ref[1])
            /\ e.sha = payload.checkout_sha
            /\ e.lastCommitMessage =
                 IF payload.commits = <<>> \/ payload.commits = << <<>> >> THEN <<>>
                 ELSE payload.commits[1][Len(payload.commits[1])].message

\* C6 witness: a push of two commits with different messages to a branch
\* below refs/heads
C6_Witness ==
    /\ Accepted("push")
    /\ payload.ref = << <<"refs", "/", "heads", "/", "main">> >>
    /\ payload.commits # <<>>
    /\ Len(payload.commits[1]) = 2
    /\ payload.commits[1][1].message # payload.commits[1][2].message
    /\ hookResult.value[1].branch = <<"main">>

\* C7: the event of an accepted merge-request payload
C7_MergeRequestEvent ==
    Accepted("merge_request") =>
        LET e == hookResult.value[1]
            mr == payload.object_attributes[1]
        IN  /\ e.type = "pr"
            /\ e.action = CASE mr.state = "opened" -> "opened"
                            [] mr.state = "reopened" -> "reopened"
                            [] mr.state \in {"closed", "merged"} -> "closed"
            /\ e.branch = mr.target_branch
            /\ e.sha = mr.last_commit[1].id
            /\ e.prNum = mr.iid
            /\ (mr.iid = 42 => e.prRef = <<"merge_requests", "/", "4", "2">>)
            /\ (mr.iid = 7 => e.prRef = <<"merge_requests", "/", "7">>)

\* C7 witness: merge request 42 in state merged, normalized to closed
C7_Witness ==
    /\ Accepted("merge_request")
    /\ payload.object_attributes[1].state = "merged"
    /\ payload.object_attributes[1].iid = 42
    /\ hookResult.value[1].action = "closed"

----------------------------------------------------------------------------
(* Properties of address translation (Spec) *)

HostMismatch == "This checkoutUrl is not supported for your current login host."

\* _parseUrl has completed, or thrown
ParseUrlDone == op = "_parseUrl" /\ pc = "done"

\* C11 (as claimed): _parseUrl on a checkout URL of another host fails with
\* HostMismatch without handing a request to runCommand; on a URL of the
\* configured host whose project lookup succeeds it yields
\* hostname:projectId:branch
C11_CrossHostRejected ==
    ParseUrlDone =>
        /\ args.checkoutUrl.hostname # gitlabHost =>
              /\ outcome = Rejected(HostMismatch)
              /\ request = <<>>
              /\ calls = <<>>
        /\ (/\ args.checkoutUrl.hostname = gitlabHost
            /\ settled.state = "resolved"
            /\ Is2xx(settled.value.statusCode)) =>
              outcome = Resolved(<<gitlabHost, ":", "1", "2", "3", "4", ":">>
                                 \o Tail(args.checkoutUrl.branch[1]))

\* C12 (as claimed): on a checkout URL without the #branch suffix _parseUrl
\* does not fail for the missing suffix, and a successful translation carries
\* the default branch
C12_BranchDefaults ==
    (op = "_parseUrl" /\ args.checkoutUrl.branch = <<>>) =>
        /\ outcome.state # "thrown"
        /\ outcome.state = "resolved" =>
              outcome.value = <<gitlabHost, ":", "1", "2", "3", "4", ":", "master">>

\* the number of parts scmUri.split(':') gives
PartsOf(scmUri) == Cardinality({i \in 1..Len(scmUri) : scmUri[i] = ":"}) + 1

\* the operation in flight takes an internal address
TakesAddress == op # "none" /\ "scmUri" \in DOMAIN args

\* C13 (as claimed): an operation called with an address of fewer than 3
\* parts fails, and hands no request to runCommand
C13_MalformedAddressRejected ==
    (TakesAddress /\ PartsOf(args.scmUri) < 3) =>
        /\ pc = "done"
        /\ outcome.state \in {"rejected", "thrown"}
        /\ request = <<>>

----------------------------------------------------------------------------
(* Properties of webhook registration (Spec) *)

\* the hooks of the project whose url is the given one
HooksAt(url) == {i \in 1..Len(projectHooks) : projectHooks[i].url = url}

\* C14: _addWebhook lists the hooks, then issues one write: a POST on the hooks
\* collection when no hook has the url, a PUT on the id of the hook that has
\* it; a failed lookup is followed by no write; the project never holds two
\* hooks with the url, and holds exactly one after a completed registration
C14_RegisterWebhookIdempotent ==
    /\ \A w \in WebhookUrls : Cardinality(HooksAt(w)) <= 1
    /\ op = "_addWebhook" =>
        LET matching == HooksAt(args.webhookUrl)
            hooksUrl == <<"https", "://", gitlabHost, "/api/v4", "/projects/", "1234",
                          "/hooks">>
        IN  /\ (pc = "_createWebhook" /\ settled = NotCalled) =>
                  /\ calls = <<[tag |-> "_findWebhook", method |-> "GET", status |-> "2xx"]>>
                  /\ request.qs.url = args.webhookUrl
                  /\ IF matching = {}
                     THEN request.method = "POST" /\ request.url = hooksUrl
                     ELSE /\ request.method = "PUT"
                          /\ \E i \in matching :
                                request.url = hooksUrl \o <<"/">>
                                                \o Digits(projectHooks[i].id)
            /\ (Len(calls) >= 1 /\ calls[1].status # "2xx") =>
                  /\ Len(calls) = 1
                  /\ pc \in {"_findWebhook", "done"}
            /\ Len(calls) <= 2
            /\ (pc = "done" /\ outcome.state = "resolved") =>
                  /\ Len(calls) = 2
                  /\ calls[2].tag = "_createWebhook"
                  /\ calls[2].method \in {"POST", "PUT"}
                  /\ Cardinality(matching) = 1

\* C14 witness: a second registration has completed by a PUT, after a first
\* one created the hook under id 1 on a project that had none
C14_Witness ==
    /\ op = "_addWebhook"
    /\ pc = "done"
    /\ outcome.state = "resolved"
    /\ request.method = "PUT"
    /\ projectHooks = <<[id |-> 1, url |-> "https://sd.example/v4/webhooks"]>>

----------------------------------------------------------------------------
(* Properties of the breaker (Spec) *)

\* the runCommand awaited settles in this step
Settles == pc \in Tags /\ settled = NotCalled /\ settled' # NotCalled

----------------------------------------------------------------------------
(* Properties of _decorateCommit (Spec) *)

\* the call sites of the settled calls, in order
CallTags == [i \in 1..Len(calls) |-> calls[i].tag]

\* C16: the author lookup is issued only after the address lookup and the
\* commit lookup have succeeded on a commit with an author name; the result
\* is produced only after every lookup issued has succeeded, with the
\* placeholder author when the commit has no author name; a failed lookup
\* is followed by no other and the operation fails
C16_DecorateCommitJoin ==
    op = "_decorateCommit" =>
        /\ \A i \in 1..Len(calls) : i < Len(calls) => calls[i].status = "2xx"
        /\ pc = "_decorateCommit: commitLookup" =>
              CallTags \in {<<"lookupScmUri">>,
                            <<"lookupScmUri", "_decorateCommit: commitLookup">>}
        /\ pc = "_decorateAuthor" =>
              /\ SubSeq(CallTags, 1, 2) =
                    <<"lookupScmUri", "_decorateCommit: commitLookup">>
              /\ calls[2].status = "2xx"
              /\ locals.commitInfo.author_name \notin {Undefined, ""}
        /\ (pc = "done" /\ outcome.state = "resolved") =>
              /\ \A i \in 1..Len(calls) : calls[i].status = "2xx"
              /\ outcome.value.message = locals.commitInfo.message
              /\ IF locals.commitInfo.author_name \in {Undefined, ""}
                 THEN /\ CallTags = <<"lookupScmUri", "_decorateCommit: commitLookup">>
                      /\ outcome.value.author = DEFAULT_AUTHOR
                 ELSE CallTags = <<"lookupScmUri", "_decorateCommit: commitLookup",
                                   "_decorateAuthor">>
        /\ (pc = "done" /\ calls # <<>> /\ calls[Len(calls)].status # "2xx") =>
              outcome.state = "rejected"
        /\ pc = "done" => outcome.state \in {"resolved", "rejected"}

\* C16 witness: the commit named its author, three lookups succeeded in order
\* and the result carries the looked-up author
C16_Witness ==
    /\ op = "_decorateCommit"
    /\ pc = "done"
    /\ outcome.state = "resolved"
    /\ Len(calls) = 3
    /\ calls[3].tag = "_decorateAuthor"
    /\ outcome.value.author.username = "alice"

----------------------------------------------------------------------------
(* Concurrent registrations: NumCallers callers each have one _addWebhook in
   flight on the same adapter, for the same scmUri and webhookUrl. The
   callbacks of one caller run in order; those of different callers
   interleave at every runCommand awaited *)

Callers == 1..NumCallers

\* the hooks of a project that has none with a url a caller registers
HooksWithoutUrl ==
    {hs \in InitialHooks : \A i \in 1..Len(hs) : hs[i].url \notin WebhookUrls}

\* caller p has not called yet
NotRegistering(config) ==
    [pc |-> "idle", config |-> config, request |-> <<>>, settled |-> NotCalled,
     hookInfo |-> <<>>, outcome |-> NotCalled]

ConcInit ==
    /\ headers = {}
    /\ payload = Merge([object_kind |-> Undefined], Merge(NoPush, NoMergeRequest))
    /\ hookResult = NotCalled
    /\ canHandle = NotCalled
    /\ op = "none"
    /\ pc = "idle"
    /\ args = <<>>
    /\ request = <<>>
    /\ settled = NotCalled
    /\ locals = <<>>
    /\ outcome = NotCalled
    /\ calls = <<>>
    /\ breaker = [state |-> "closed", failures |-> 0]
    /\ projectHooks \in HooksWithoutUrl
    /\ registrations \in
          {[p \in Callers |-> NotRegistering([scmUri |-> u, webhookUrl |-> w])] :
              u \in ScmUris, w \in WebhookUrls}

\* the variables the registrations of concurrent callers leave alone
soloVars == <<op, pc, args, request, settled, locals, outcome, calls>>

\* _addWebhook called by p: _findWebhook hands the GET of the hooks to runCommand
Conc_addWebhook(p) ==
    LET r == registrations[p]
    IN  /\ r.pc = "idle"
        /\ registrations' = [registrations EXCEPT ![p] =
              [r EXCEPT !.pc = "_findWebhook",
                        !.request = GetRequest(
                            ProjectUrl(getScmUriParts(r.config.scmUri).repoId)
                            \o <<"/hooks">>)]]
        /\ UNCHANGED <<breaker, projectHooks, soloVars, hookVars>>

\* the hooks after the provider has carried out the request p has in flight
AfterRequestOf(r) ==
    IF r.pc = "_createWebhook"
    THEN ApplyWrite(projectHooks, r.request.method, r.hookInfo, r.request.qs.url)
    ELSE projectHooks

\* the provider answers the request p has in flight
Conc_RunCommandResolves(p) ==
    LET r == registrations[p]
    IN  /\ r.pc \in {"_findWebhook", "_createWebhook"}
        /\ r.settled = NotCalled
        /\ breaker.state # "open"
        /\ \E resp \in Responses(r.pc) :
              /\ registrations' = [registrations EXCEPT ![p].settled = Resolved(resp)]
              /\ projectHooks' = IF Is2xx(resp.statusCode) THEN AfterRequestOf(r)
                                 ELSE projectHooks
        /\ breaker' = OnSuccess(breaker)
        /\ UNCHANGED <<soloVars, hookVars>>

\* the breaker refuses the call of p, or the transport fails
Conc_RunCommandRejects(p) ==
    LET r == registrations[p]
    IN  /\ r.pc \in {"_findWebhook", "_createWebhook"}
        /\ r.settled = NotCalled
        /\ \E e \in CallErrors :
              /\ registrations' = [registrations EXCEPT ![p].settled = Rejected(e)]
              /\ IF breaker.state = "open"
                 THEN /\ e = "CircuitOpen"
                      /\ UNCHANGED <<breaker, projectHooks>>
                 ELSE /\ e # "CircuitOpen"
                      /\ breaker' = OnFailure(breaker)
                      /\ projectHooks' \in {projectHooks, AfterRequestOf(r)}
        /\ UNCHANGED <<soloVars, hookVars>>

\* the promise of p settles
CompleteOf(p, o) ==
    /\ registrations' = [registrations EXCEPT ![p].pc = "done", ![p].outcome = o]
    /\ UNCHANGED <<breaker, projectHooks, soloVars, hookVars>>

\* the rejection of runCommand rejects the promise of p
Conc_Propagate(p) ==
    LET r == registrations[p]
    IN  /\ r.pc \in {"_findWebhook", "_createWebhook"}
        /\ r.settled.state = "rejected"
        /\ CompleteOf(p, Rejected(r.settled.error))

\* the _findWebhook callback of p, and the _createWebhook chained on it
Conc_Then_findWebhook(p) ==
    LET r == registrations[p]
    IN  /\ r.pc = "_findWebhook"
        /\ r.settled.state = "resolved"
        /\ LET thrown == checkResponseError(r.settled.value, "_findWebhook")
           IN  IF thrown # <<>> THEN CompleteOf(p, Rejected(thrown[1]))
               ELSE LET hookInfo == findHook(r.settled.value.body.array,
                                             r.config.webhookUrl)
                    IN  /\ registrations' = [registrations EXCEPT ![p] =
                              [r EXCEPT !.pc = "_createWebhook",
                                        !.hookInfo = hookInfo,
                                        !.settled = NotCalled,
                                        !.request = webhookRequest(
                                            [hookInfo |-> hookInfo,
                                             scmUri |-> r.config.scmUri,
                                             url |-> r.config.webhookUrl])]]
                        /\ UNCHANGED <<breaker, projectHooks, soloVars, hookVars>>

\* the _createWebhook callback of p
Conc_Then_createWebhook(p) ==
    LET r == registrations[p]
    IN  /\ r.pc = "_createWebhook"
        /\ r.settled.state = "resolved"
        /\ LET thrown == checkResponseError(r.settled.value, "_createWebhook")
           IN  IF thrown # <<>> THEN CompleteOf(p, Rejected(thrown[1]))
               ELSE CompleteOf(p, Resolved(Undefined))

ConcNext ==
    \/ \E p \in Callers : Conc_addWebhook(p)
    \/ \E p \in Callers : Conc_RunCommandResolves(p)
    \/ \E p \in Callers : Conc_RunCommandRejects(p)
    \/ \E p \in Callers : Conc_Propagate(p)
    \/ \E p \in Callers : Conc_Then_findWebhook(p)
    \/ \E p \in Callers : Conc_Then_createWebhook(p)
    \/ CoolDownElapses

ConcSpec == ConcInit /\ [][ConcNext]_vars

\* C17 (as claimed): when the registrations of concurrent callers for one
\* scmUri and webhookUrl, on a project that had no hook with that url, have
\* all completed, the project holds at most one hook with that url
C17_NoDuplicateUnderInterleaving ==
    (\A p \in Callers : registrations[p].pc = "done") =>
        \A w \in WebhookUrls : Cardinality(HooksAt(w)) <= 1

====
